---- MODULE Spec2Model ----
(***************************************************************************)
(* ScheduleHandlerService of the backend-api: refresh-rate                 *)
(* synchronisation, fetch/delivery dispatch and the three outcome-event    *)
(* handlers, run against a document store of user feeds.                   *)
(*                                                                         *)
(* The store is the function `feeds` from _id to document.  A document is  *)
(*   [url, refreshRateSeconds, user, disabledCode, healthStatus,           *)
(*    discordChannels, discordWebhooks]                                    *)
(* and a connection is [id, disabledCode].  A field that does not exist    *)
(* has the value Absent.  Every store operation (find, updateOne,          *)
(* updateMany, distinct, one cursor fetch) is one atomic step; a handler   *)
(* is a sequence of such steps and other handlers run in between.          *)
(* `bus` is the sequence of messages published to the broker and of calls  *)
(* made to collaborating services.  `supporters` is the supporters         *)
(* collection of SupporterService with the calls of its guild operations   *)
(* in progress and the operations completed.                               *)
(***************************************************************************)
EXTENDS Integers, Sequences, FiniteSets, TLC

VARIABLES feeds, benefits, hs, sync, disp, used, bus, supporters

vars == <<feeds, benefits, hs, sync, disp, used, bus, supporters>>

(***************************************************************************)
(* Bounds of the model.                                                    *)
(***************************************************************************)
MaxDests == 2
NumEventFeeds == 2
NumFillerFeeds == 25
MaxEvents == 2
MaxEdits == 1
MaxChanges == 1
MaxPublished == 2
MaxCalls == 3

(***************************************************************************)
(* Program constants and value domains.                                    *)
(***************************************************************************)
Absent == "absent"
NoId == "undefined"
NullId == "null"

FailedRequests == "FAILED_REQUESTS"
InvalidFeed == "INVALID_FEED"
HealthOk == "OK"
HealthFailed == "FAILED"

FeedRejectCodes == {"user-feeds/invalid-feed"}
ArticleRejectCodes == {"user-feeds/bad-request", "user-feeds/forbidden"}

Handlers == {"h1", "h2"}
DestIds == {"d1", "d2"}
Keys == <<"discordChannels", "discordWebhooks">>
EventFeedIds == 1..NumEventFeeds
MissingFeedId == NumEventFeeds + NumFillerFeeds + 1
EventUrls == {1, 2}

\* getUserFeedDisableCodeByFeedRejectCode: fixed, total mapping.
getUserFeedDisableCodeByFeedRejectCode(rejectedCode) ==
    InvalidFeed

\* getConnectionDisableCodeByArticleRejectCode: fixed, total mapping.
getConnectionDisableCodeByArticleRejectCode(rejectedCode) ==
    IF rejectedCode = "user-feeds/bad-request" THEN "BAD_FORMAT"
    ELSE "MISSING_PERMISSIONS"

ConnCodes == {getConnectionDisableCodeByArticleRejectCode(c) : c \in ArticleRejectCodes}
FeedCodes == {FailedRequests} \cup {getUserFeedDisableCodeByFeedRejectCode(c) : c \in FeedRejectCodes}

(***************************************************************************)
(* Store primitives.                                                       *)
(***************************************************************************)
\* An array element that is a document (null padding is not).
IsDoc(c) == c.id # NullId

\* {"connections.<key>.<conIdx>.disabledCode": {$exists: false}}, conIdx 0-based:
\* true as well when the array has no element at conIdx.
PathDisabledCodeAbsent(doc, key, conIdx) ==
    \/ conIdx >= Len(doc[key])
    \/ doc[key][conIdx + 1].disabledCode = Absent

\* $set of "connections.<key>.<conIdx>.disabledCode" cannot descend into a
\* null element: the store rejects the update.
SetPathFails(doc, key, conIdx) ==
    /\ conIdx < Len(doc[key])
    /\ ~IsDoc(doc[key][conIdx + 1])

NullElem == [id |-> NullId, disabledCode |-> Absent]

RECURSIVE Nulls(_)
Nulls(n) == IF n <= 0 THEN <<>> ELSE <<NullElem>> \o Nulls(n - 1)

\* {$set: {"connections.<key>.<conIdx>.disabledCode": code}}: sets the field of
\* the element at conIdx; past the end of the array the store pads the array
\* with nulls and creates an element holding only that field.
SetPathDisabledCode(doc, key, conIdx, code) ==
    IF conIdx < Len(doc[key])
    THEN [doc EXCEPT ![key][conIdx + 1].disabledCode = code]
    ELSE [doc EXCEPT ![key] = @ \o Nulls(conIdx - Len(@))
                                \o <<[id |-> NoId, disabledCode |-> code]>>]

(***************************************************************************)
(* Outcome-event handlers.                                                 *)
(***************************************************************************)
IdleHandler ==
    [pc |-> "idle", kind |-> "none", url |-> 0, feedId |-> MissingFeedId,
     mediumId |-> NoId, code |-> Absent, entries |-> <<>>, pos |-> 0,
     found |-> FALSE, modified |-> {}]

\* The filter without its disabledCode guard.
UrlFailureFilter_NoGuard(doc, url) ==
    doc.url = url

\* Filter of handleUrlRequestFailureEvent.
UrlFailureFilter(doc, url) ==
    /\ doc.url = url
    /\ doc.disabledCode = Absent

\* The $set without healthStatus.
UrlFailurePatch_NoHealth(doc) ==
    [doc EXCEPT !.disabledCode = FailedRequests]

\* $set of handleUrlRequestFailureEvent.
UrlFailurePatch(doc) ==
    [doc EXCEPT !.disabledCode = FailedRequests, !.healthStatus = HealthFailed]

\* handleUrlRequestFailureEvent: one updateMany.
handleUrlRequestFailureEvent(h, url) ==
    /\ hs[h].pc = "idle"
    /\ used.events < MaxEvents
    /\ used' = [used EXCEPT !.events = @ + 1]
    /\ feeds' = [f \in DOMAIN feeds |->
                    IF UrlFailureFilter(feeds[f], url) THEN UrlFailurePatch(feeds[f])
                    ELSE feeds[f]]
    /\ hs' = [hs EXCEPT ![h] = [IdleHandler EXCEPT
                 !.pc = "done", !.kind = "url", !.url = url, !.code = FailedRequests,
                 !.modified = {<<f>> : f \in {g \in DOMAIN feeds : UrlFailureFilter(feeds[g], url)}}]]
    /\ UNCHANGED <<benefits, sync, disp, bus, supporters>>

\* handleFeedRejectedDisableFeed, findById and the early return.
FeedRejectedFind(h, feedId, rejectedCode) ==
    /\ hs[h].pc = "idle"
    /\ used.events < MaxEvents
    /\ used' = [used EXCEPT !.events = @ + 1]
    /\ hs' = [hs EXCEPT ![h] = [IdleHandler EXCEPT
                 !.pc = IF feedId \in DOMAIN feeds THEN "found" ELSE "done",
                 !.kind = "feed", !.feedId = feedId,
                 !.found = feedId \in DOMAIN feeds,
                 !.code = getUserFeedDisableCodeByFeedRejectCode(rejectedCode)]]
    /\ UNCHANGED <<feeds, benefits, sync, disp, bus, supporters>>

\* The filter without its disabledCode guard.
FeedRejectedFilter_NoGuard(f, doc, feedId) ==
    f = feedId

\* Filter of the updateOne of handleFeedRejectedDisableFeed.
FeedRejectedFilter(f, doc, feedId) ==
    /\ f = feedId
    /\ doc.disabledCode = Absent

\* handleFeedRejectedDisableFeed, the guarded updateOne.
FeedRejectedUpdate(h) ==
    /\ hs[h].pc = "found"
    /\ hs[h].kind = "feed"
    /\ feeds' = [f \in DOMAIN feeds |->
                    IF FeedRejectedFilter(f, feeds[f], hs[h].feedId)
                    THEN [feeds[f] EXCEPT !.disabledCode = hs[h].code]
                    ELSE feeds[f]]
    /\ hs' = [hs EXCEPT ![h].pc = "done",
                        ![h].modified = {<<f>> : f \in {g \in DOMAIN feeds :
                              FeedRejectedFilter(g, feeds[g], hs[h].feedId)}}]
    /\ UNCHANGED <<benefits, sync, disp, used, bus, supporters>>

\* The entries addressed one position too far.
ConnectionEntries_OneBased(doc) ==
    [i \in 1..Len(doc.discordChannels) |->
        [key |-> Keys[1], conIdx |-> i, id |-> doc.discordChannels[i].id]]
    \o
    [i \in 1..Len(doc.discordWebhooks) |->
        [key |-> Keys[2], conIdx |-> i, id |-> doc.discordWebhooks[i].id]]

\* Object.entries(foundFeed.connections) flattened in iteration order:
\* one entry per (connectionKey, conIdx) with the id read from the snapshot.
ConnectionEntries(doc) ==
    [i \in 1..Len(doc.discordChannels) |->
        [key |-> Keys[1], conIdx |-> i - 1, id |-> doc.discordChannels[i].id]]
    \o
    [i \in 1..Len(doc.discordWebhooks) |->
        [key |-> Keys[2], conIdx |-> i - 1, id |-> doc.discordWebhooks[i].id]]

\* The id read from a field the connections do not have: always undefined.
HasId_WrongField(entry) == FALSE

\* connection.id.toHexString() throws on an element without an id.
HasId(entry) == entry.id \in DestIds

\* The next entry at or after position i at which the scan stops: an entry
\* whose id equals mediumId, or one on which reading the id throws;
\* Len(entries) + 1 when the loops run to their end.
RECURSIVE NextStop(_, _, _)
NextStop(entries, i, mediumId) ==
    IF i > Len(entries) THEN i
    ELSE IF ~HasId(entries[i]) \/ entries[i].id = mediumId THEN i
    ELSE NextStop(entries, i + 1, mediumId)

\* The handler without its early return: reading the connections of a feed
\* that was not found throws.
ConnRejectedFind_NoReturn(h, feedId, mediumId, rejectedCode) ==
    /\ hs[h].pc = "idle"
    /\ used.events < MaxEvents
    /\ used' = [used EXCEPT !.events = @ + 1]
    /\ hs' = [hs EXCEPT ![h] = [IdleHandler EXCEPT
                 !.pc = IF feedId \in DOMAIN feeds THEN "found" ELSE "failed",
                 !.kind = "conn", !.feedId = feedId, !.mediumId = mediumId,
                 !.found = feedId \in DOMAIN feeds,
                 !.code = getConnectionDisableCodeByArticleRejectCode(rejectedCode),
                 !.entries = IF feedId \in DOMAIN feeds
                             THEN ConnectionEntries(feeds[feedId]) ELSE <<>>,
                 !.pos = 1]]
    /\ UNCHANGED <<feeds, benefits, sync, disp, bus, supporters>>

\* handleRejectedArticleDisableConnection, findById and the early return.
ConnRejectedFind(h, feedId, mediumId, rejectedCode) ==
    /\ hs[h].pc = "idle"
    /\ used.events < MaxEvents
    /\ used' = [used EXCEPT !.events = @ + 1]
    /\ hs' = [hs EXCEPT ![h] = [IdleHandler EXCEPT
                 !.pc = IF feedId \in DOMAIN feeds THEN "found" ELSE "done",
                 !.kind = "conn", !.feedId = feedId, !.mediumId = mediumId,
                 !.found = feedId \in DOMAIN feeds,
                 !.code = getConnectionDisableCodeByArticleRejectCode(rejectedCode),
                 !.entries = IF feedId \in DOMAIN feeds
                             THEN ConnectionEntries(feeds[feedId]) ELSE <<>>,
                 !.pos = 1]]
    /\ UNCHANGED <<feeds, benefits, sync, disp, bus, supporters>>

\* The filter without its $exists guard on the addressed path.
ConnRejectedFilter_NoGuard(f, doc, feedId, entry) ==
    f = feedId

\* Filter of the updateOne of handleRejectedArticleDisableConnection.
ConnRejectedFilter(f, doc, feedId, entry) ==
    /\ f = feedId
    /\ PathDisabledCodeAbsent(doc, entry.key, entry.conIdx)

\* handleRejectedArticleDisableConnection, the loops up to and including the
\* next updateOne (or up to the end, or up to the entry that throws).
ConnRejectedStep(h) ==
    /\ hs[h].pc = "found"
    /\ hs[h].kind = "conn"
    /\ LET entries == hs[h].entries
           stop == NextStop(entries, hs[h].pos, hs[h].mediumId)
       IN  IF stop > Len(entries)
           THEN /\ hs' = [hs EXCEPT ![h].pc = "done", ![h].pos = stop]
                /\ UNCHANGED feeds
           ELSE IF ~HasId(entries[stop])
           THEN /\ hs' = [hs EXCEPT ![h].pc = "failed", ![h].pos = stop]
                /\ UNCHANGED feeds
           ELSE LET e == entries[stop]
                    hit == {f \in DOMAIN feeds : ConnRejectedFilter(f, feeds[f], hs[h].feedId, e)}
                IN  IF \E f \in hit : SetPathFails(feeds[f], e.key, e.conIdx)
                    THEN /\ hs' = [hs EXCEPT ![h].pc = "failed", ![h].pos = stop]
                         /\ UNCHANGED feeds
                    ELSE /\ feeds' = [f \in DOMAIN feeds |->
                                IF f \in hit
                                THEN SetPathDisabledCode(feeds[f], e.key, e.conIdx, hs[h].code)
                                ELSE feeds[f]]
                         /\ hs' = [hs EXCEPT ![h].pos = stop + 1,
                                     ![h].modified = @ \cup {<<f, e.key, e.conIdx>> : f \in hit}]
    /\ UNCHANGED <<benefits, sync, disp, used, bus, supporters>>

\* The broker acknowledges the message; the consumer takes the next one.
HandlerReturn(h) ==
    /\ hs[h].pc \in {"done", "failed"}
    /\ hs' = [hs EXCEPT ![h] = IdleHandler]
    /\ UNCHANGED <<feeds, benefits, sync, disp, used, bus, supporters>>

EventStep ==
    \E h \in Handlers :
        \/ \E url \in EventUrls : handleUrlRequestFailureEvent(h, url)
        \/ \E f \in EventFeedIds \cup {MissingFeedId}, rc \in FeedRejectCodes :
               FeedRejectedFind(h, f, rc)
        \/ FeedRejectedUpdate(h)
        \/ \E f \in {1, MissingFeedId}, m \in DestIds, rc \in ArticleRejectCodes :
               ConnRejectedFind(h, f, m, rc)
        \/ ConnRejectedStep(h)
        \/ HandlerReturn(h)

(***************************************************************************)
(* Admin layer (external): edits of a feed's connection arrays.  These     *)
(* shift the positions of the connections behind the edited position.      *)
(***************************************************************************)
RemoveAt(seq, p) == SubSeq(seq, 1, p - 1) \o SubSeq(seq, p + 1, Len(seq))

AdminRemoveConnection(f, key, p) ==
    /\ used.edits < MaxEdits
    /\ used' = [used EXCEPT !.edits = @ + 1]
    /\ f \in DOMAIN feeds
    /\ p \in 1..Len(feeds[f][key])
    /\ feeds' = [feeds EXCEPT ![f][key] = RemoveAt(@, p)]
    /\ UNCHANGED <<benefits, hs, sync, disp, bus, supporters>>

AdminAddConnection(f, key, id) ==
    /\ used.edits < MaxEdits
    /\ used' = [used EXCEPT !.edits = @ + 1]
    /\ f \in DOMAIN feeds
    /\ Len(feeds[f][key]) < MaxDests
    /\ \A i \in 1..Len(feeds[f][key]) : feeds[f][key][i].id # id
    /\ feeds' = [feeds EXCEPT ![f][key] = <<[id |-> id, disabledCode |-> Absent]>> \o @]
    /\ UNCHANGED <<benefits, hs, sync, disp, bus, supporters>>

AdminStep ==
    \E f \in EventFeedIds, k \in 1..2 :
        \/ \E p \in 1..MaxDests : AdminRemoveConnection(f, Keys[k], p)
        \/ \E id \in DestIds : AdminAddConnection(f, Keys[k], id)

(***************************************************************************)
(* Initial stores.                                                         *)
(***************************************************************************)
Manual == "MANUAL"
DefaultRefreshRateSeconds == 600
Accounts == {"U1", "U2"}

Conn(id, code) == [id |-> id, disabledCode |-> code]

InitConns == {Conn(id, code) : id \in DestIds, code \in {Absent, Manual}}

\* Connection arrays as the admin layer creates them: ids distinct within
\* one array (the same id may still occur under the other key).
ConnLists(maxLen) ==
    {l \in UNION {[1..n -> InitConns] : n \in 0..maxLen} :
        \A i, j \in 1..Len(l) : i # j => l[i].id # l[j].id}

Feed(url, rate, user, code, channels, webhooks) ==
    [url |-> url, refreshRateSeconds |-> rate, user |-> user,
     disabledCode |-> code,
     healthStatus |-> HealthOk,
     discordChannels |-> channels, discordWebhooks |-> webhooks]

IdleDisp ==
    [pc |-> "idle", rate |-> 0, limits |-> <<>>, batches |-> <<>>, inflight |-> {},
     lastId |-> 0, buffer |-> <<>>, active |-> {}, handled |-> <<>>,
     rejected |-> FALSE]

IdleSync ==
    [pc |-> "idle", owner |-> "none", benefits |-> <<>>, pending |-> {},
     special |-> {}, matched |-> {}, ran |-> FALSE, prev |-> <<>>]

Callers == {"c1", "c2"}

IdleCall == [pc |-> "idle", op |-> "none", supporterId |-> "none", guildId |-> "none",
             guilds |-> <<>>]

IdleSup == [store |-> <<>>, calls |-> [c \in Callers |-> IdleCall], completed |-> <<>>]

\* Stores of the outcome-event specifications: feed 1 varies in its
\* disabledCode and connections, feed 2 shares or does not share feed 1's URL.
InitEvents ==
    /\ \E code \in {Absent, Manual}, chans \in ConnLists(MaxDests),
          hooks \in {<<>>, <<Conn("d1", Absent)>>}, url2 \in EventUrls :
          feeds = [f \in EventFeedIds |->
                     IF f = 1
                     THEN Feed(1, DefaultRefreshRateSeconds, "U1", code, chans, hooks)
                     ELSE Feed(url2, DefaultRefreshRateSeconds, "U2", Absent,
                               <<Conn("d1", Absent)>>, <<>>)]
    /\ benefits = [a \in {} |-> 0]
    /\ hs = [h \in Handlers |-> IdleHandler]
    /\ sync = IdleSync
    /\ disp = IdleDisp
    /\ used = [events |-> 0, edits |-> 0, changes |-> 0]
    /\ bus = <<>>
    /\ supporters = IdleSup

\* Outcome-event handlers alone: no admin edit, no dispatch.
NextEvents == EventStep
SpecEvents == InitEvents /\ [][NextEvents]_vars

\* Stores of the admin-race specification: two enabled feeds, feed 1 varies
\* in its connections.
InitAdmin ==
    /\ \E chans \in ConnLists(MaxDests), hooks \in {<<>>, <<Conn("d1", Absent)>>} :
          feeds = [f \in EventFeedIds |->
                     IF f = 1
                     THEN Feed(1, DefaultRefreshRateSeconds, "U1", Absent, chans, hooks)
                     ELSE Feed(2, DefaultRefreshRateSeconds, "U2", Absent,
                               <<Conn("d1", Absent)>>, <<>>)]
    /\ benefits = [a \in {} |-> 0]
    /\ hs = [h \in Handlers |-> IdleHandler]
    /\ sync = IdleSync
    /\ disp = IdleDisp
    /\ used = [events |-> 0, edits |-> 0, changes |-> 0]
    /\ bus = <<>>
    /\ supporters = IdleSup

\* Outcome-event handlers racing with admin edits of the connection arrays.
NextAdmin == EventStep \/ AdminStep
SpecAdmin == InitAdmin /\ [][NextAdmin]_vars

(***************************************************************************)
(* SupporterService: the guild list of a supporter.  supporters.store maps *)
(* a supporter id to its guilds array; a call is a findOne followed, when  *)
(* its test passes, by an updateOne, and other calls run in between.       *)
(* supporters.completed lists the calls that returned, in order of return. *)
(***************************************************************************)
SupporterIds == {"S1"}
MissingSupporterId == "S0"
GuildIds == {"g1", "g2"}

\* supporter.guilds.includes(guildId).
Includes(guilds, guildId) == \E i \in 1..Len(guilds) : guilds[i] = guildId

\* {$pull: {guilds: guildId}}: every occurrence is removed.
Pull(guilds, guildId) == SelectSeq(guilds, LAMBDA x : x # guildId)

\* The calls started so far that have returned or are in progress.
CallsStarted(s) ==
    Len(s.completed) + Cardinality({c \in Callers : s.calls[c].pc # "idle"})

\* The call of caller c settles: it resolves, or rejects with the error thrown.
Settled(s, c, op, supporterId, guildId, threw) ==
    [s EXCEPT !.calls[c] = IdleCall,
              !.completed = Append(@, [op |-> op, supporterId |-> supporterId,
                                       guildId |-> guildId, threw |-> threw])]

\* The call of caller c returns normally.
Returned(s, c, op, supporterId, guildId) == Settled(s, c, op, supporterId, guildId, FALSE)

\* addGuildToSupporter up to its updateOne: findOne, the throw when no
\* supporter is found, the includes test and the push onto the array read.
AddGuildFindOne(c, supporterId, guildId) ==
    /\ supporters.calls[c].pc = "idle"
    /\ CallsStarted(supporters) < MaxCalls
    /\ supporters' =
          IF supporterId \notin DOMAIN supporters.store
          THEN [supporters EXCEPT !.calls[c] =
                   [IdleCall EXCEPT !.pc = "failed", !.op = "add",
                                    !.supporterId = supporterId, !.guildId = guildId]]
          ELSE IF Includes(supporters.store[supporterId], guildId)
          THEN Returned(supporters, c, "add", supporterId, guildId)
          ELSE [supporters EXCEPT !.calls[c] =
                   [pc |-> "update", op |-> "add", supporterId |-> supporterId,
                    guildId |-> guildId,
                    guilds |-> Append(supporters.store[supporterId], guildId)]]
    /\ UNCHANGED <<feeds, benefits, hs, sync, disp, used, bus>>

\* addGuildToSupporter, updateOne({_id}, {$set: {guilds: supporter.guilds}}).
AddGuildUpdateOne(c) ==
    /\ supporters.calls[c].pc = "update"
    /\ supporters.calls[c].op = "add"
    /\ LET call == supporters.calls[c]
           written == [supporters EXCEPT !.store[call.supporterId] = call.guilds]
       IN  supporters' = Returned(written, c, "add", call.supporterId, call.guildId)
    /\ UNCHANGED <<feeds, benefits, hs, sync, disp, used, bus>>

\* removeGuildFromSupporter up to its updateOne: findOne, the throw when no
\* supporter is found and the includes test.
RemoveGuildFindOne(c, supporterId, guildId) ==
    /\ supporters.calls[c].pc = "idle"
    /\ CallsStarted(supporters) < MaxCalls
    /\ supporters' =
          IF supporterId \notin DOMAIN supporters.store
          THEN [supporters EXCEPT !.calls[c] =
                   [IdleCall EXCEPT !.pc = "failed", !.op = "remove",
                                    !.supporterId = supporterId, !.guildId = guildId]]
          ELSE IF ~Includes(supporters.store[supporterId], guildId)
          THEN Returned(supporters, c, "remove", supporterId, guildId)
          ELSE [supporters EXCEPT !.calls[c] =
                   [pc |-> "update", op |-> "remove", supporterId |-> supporterId,
                    guildId |-> guildId, guilds |-> supporters.store[supporterId]]]
    /\ UNCHANGED <<feeds, benefits, hs, sync, disp, used, bus>>

\* removeGuildFromSupporter, updateOne({_id}, {$pull: {guilds: guildId}}).
RemoveGuildUpdateOne(c) ==
    /\ supporters.calls[c].pc = "update"
    /\ supporters.calls[c].op = "remove"
    /\ LET call == supporters.calls[c]
           written == [supporters EXCEPT !.store[call.supporterId] = Pull(@, call.guildId)]
       IN  supporters' = Returned(written, c, "remove", call.supporterId, call.guildId)
    /\ UNCHANGED <<feeds, benefits, hs, sync, disp, used, bus>>

\* The call that threw has rejected with `Supporter ... not found`.
CallRejected(c) ==
    /\ supporters.calls[c].pc = "failed"
    /\ LET call == supporters.calls[c]
       IN  supporters' = Settled(supporters, c, call.op, call.supporterId, call.guildId, TRUE)
    /\ UNCHANGED <<feeds, benefits, hs, sync, disp, used, bus>>

GuildStep ==
    \E c \in Callers :
        \/ \E s \in SupporterIds \cup {MissingSupporterId}, g \in GuildIds :
               AddGuildFindOne(c, s, g)
        \/ AddGuildUpdateOne(c)
        \/ \E s \in SupporterIds \cup {MissingSupporterId}, g \in GuildIds :
               RemoveGuildFindOne(c, s, g)
        \/ RemoveGuildUpdateOne(c)
        \/ CallRejected(c)

\* One supporter with every guild list without repetition.
InitGuilds ==
    /\ feeds = <<>>
    /\ benefits = <<>>
    /\ hs = [h \in Handlers |-> IdleHandler]
    /\ sync = IdleSync
    /\ disp = IdleDisp
    /\ used = [events |-> 0, edits |-> 0, changes |-> 0]
    /\ bus = <<>>
    /\ \E g0 \in {<<>>, <<"g1">>, <<"g2">>, <<"g1", "g2">>, <<"g2", "g1">>} :
          supporters = [IdleSup EXCEPT !.store = [s \in SupporterIds |-> g0]]

NextGuilds == GuildStep
SpecGuilds == InitGuilds /\ [][NextGuilds]_vars

\* The place of the last completed operation on guild g of supporter s, 0
\* when there is none.
LastCompleted(s, g) ==
    LET idx == {i \in 1..Len(supporters.completed) :
                   /\ supporters.completed[i].supporterId = s
                   /\ supporters.completed[i].guildId = g
                   /\ ~supporters.completed[i].threw}
    IN  IF idx = {} THEN 0 ELSE CHOOSE i \in idx : \A j \in idx : j <= i

\* C24 as stated: when no call is in progress, the guild list of an existing
\* supporter holds every guild whose last completed operation was an add and
\* no guild whose last completed operation was a remove.
C24_GuildsReflectLastOperation ==
    (\A c \in Callers : supporters.calls[c].pc = "idle") =>
       \A s \in DOMAIN supporters.store : \A g \in GuildIds :
          LET last == LastCompleted(s, g)
          IN  last # 0 =>
                 (Includes(supporters.store[s], g) <=> supporters.completed[last].op = "add")

(***************************************************************************)
(* Properties of the outcome-event handlers.                               *)
(***************************************************************************)
\* Handler h takes a step of handleRejectedArticleDisableConnection past its read.
ConnWriteStepOf(h) ==
    /\ hs[h].pc = "found"
    /\ hs[h].kind = "conn"
    /\ hs'[h] # hs[h]

\* The connections of feed f with id m.
PositionsWithId(store, f, m) ==
    {<<k, i>> \in (1..2) \X (1..MaxDests + 1) :
        i <= Len(store[f][Keys[k]]) /\ store[f][Keys[k]][i].id = m}

\* C3: once a feed's or a connection's disabledCode is set, no step of any
\* outcome-event handler changes or clears it (the connection keeps its
\* place and all its fields).
C3_DisablementMonotonic ==
    [][\A f \in DOMAIN feeds :
          /\ f \in DOMAIN feeds'
          /\ feeds[f].disabledCode # Absent =>
                 feeds'[f].disabledCode = feeds[f].disabledCode
          /\ \A k \in 1..2 : \A i \in 1..Len(feeds[f][Keys[k]]) :
                 feeds[f][Keys[k]][i].disabledCode # Absent =>
                    /\ i <= Len(feeds'[f][Keys[k]])
                    /\ feeds'[f][Keys[k]][i] = feeds[f][Keys[k]][i]]_vars

\* C3 witness: a url-fetch-failed event and a destination-rejected event have
\* both been handled against a feed and a connection that were already
\* disabled by hand, and changed neither.
C3_Witness ==
    \E h1, h2 \in Handlers :
        /\ hs[h1].pc = "done" /\ hs[h1].kind = "url" /\ hs[h1].modified = {}
        /\ \E f \in DOMAIN feeds :
               feeds[f].url = hs[h1].url /\ feeds[f].disabledCode = Manual
        /\ hs[h2].pc = "done" /\ hs[h2].kind = "conn" /\ hs[h2].found
        /\ hs[h2].modified = {}
        /\ \E p \in PositionsWithId(feeds, hs[h2].feedId, hs[h2].mediumId) :
               feeds[hs[h2].feedId][Keys[p[1]]][p[2]].disabledCode = Manual

\* C5: with no concurrent edit, every write of a destination-rejection
\* handler for feed F and destination id D changes nothing but the
\* disabledCode of a connection of F that has id D and no disabledCode,
\* which becomes the mapped code; when the handler is done every connection
\* of F with id D has a disabledCode.
C5_TargetedWrite ==
    [][\A h \in Handlers : ConnWriteStepOf(h) =>
          LET F == hs[h].feedId
              D == hs[h].mediumId
          IN  /\ \A g \in DOMAIN feeds \ {F} : feeds'[g] = feeds[g]
              /\ \A k \in 1..2 : Len(feeds'[F][Keys[k]]) = Len(feeds[F][Keys[k]])
              /\ feeds'[F] = [feeds[F] EXCEPT !.discordChannels = feeds'[F].discordChannels,
                                              !.discordWebhooks = feeds'[F].discordWebhooks]
              /\ \A k \in 1..2 : \A i \in 1..Len(feeds[F][Keys[k]]) :
                     LET old == feeds[F][Keys[k]][i]
                         new == feeds'[F][Keys[k]][i]
                     IN  new # old =>
                            /\ old.id = D
                            /\ old.disabledCode = Absent
                            /\ new = [old EXCEPT !.disabledCode = hs[h].code]
              /\ hs'[h].pc = "done" =>
                     \A p \in PositionsWithId(feeds', F, D) :
                        feeds'[F][Keys[p[1]]][p[2]].disabledCode # Absent]_vars

\* C5 witness: a destination-rejection handler is done, it disabled the
\* second channel of its feed, and a sibling channel and a webhook of the
\* same feed are still enabled.
C5_Witness ==
    \E h \in Handlers :
        /\ hs[h].pc = "done" /\ hs[h].kind = "conn"
        /\ hs[h].modified = {<<hs[h].feedId, Keys[1], 1>>}
        /\ LET d == feeds[hs[h].feedId]
           IN  /\ d.discordChannels[2].disabledCode = hs[h].code
               /\ d.discordChannels[1].disabledCode = Absent
               /\ Len(d.discordWebhooks) > 0
               /\ d.discordWebhooks[1].disabledCode = Absent
               /\ d.disabledCode = Absent

\* C6: a write of a destination-rejection handler never sets a disabledCode
\* on a connection whose id differs from the event's destination id, also
\* when an admin edit shifted the positions after the handler's read.
C6_NoMisTargetedWrite ==
    [][\A h \in Handlers : ConnWriteStepOf(h) =>
          LET F == hs[h].feedId
          IN  \A k \in 1..2 : \A i \in 1..Len(feeds[F][Keys[k]]) :
                 feeds'[F][Keys[k]][i] # feeds[F][Keys[k]][i]
                 => feeds[F][Keys[k]][i].id = hs[h].mediumId]_vars

\* C7: a url-fetch-failed event for URL u sets disabledCode to
\* FailedRequests and healthStatus to Failed on every feed with url u and no
\* disabledCode, and leaves every other feed as it was.
C7_UrlFailureEffect ==
    [][\A h \in Handlers :
          (hs[h].pc = "idle" /\ hs'[h].kind = "url") =>
             /\ DOMAIN feeds' = DOMAIN feeds
             /\ \A f \in DOMAIN feeds :
                    feeds'[f] =
                       IF feeds[f].url = hs'[h].url /\ feeds[f].disabledCode = Absent
                       THEN [feeds[f] EXCEPT !.disabledCode = FailedRequests,
                                             !.healthStatus = HealthFailed]
                       ELSE feeds[f]]_vars

\* C7 witness: two feeds share a URL; the event disabled the enabled one
\* and left the one disabled by hand with its code and its health status.
C7_Witness ==
    \E h \in Handlers :
        /\ hs[h].pc = "done" /\ hs[h].kind = "url"
        /\ hs[h].modified = {<<2>>}
        /\ feeds[1].url = hs[h].url /\ feeds[2].url = hs[h].url
        /\ feeds[1].disabledCode = Manual /\ feeds[1].healthStatus = HealthOk
        /\ feeds[2].disabledCode = FailedRequests /\ feeds[2].healthStatus = HealthFailed

\* C8: a feed-rejection or destination-rejection event whose feed id is not
\* in the store completes at once, without failure and without any write.
C8_MissingFeedNoOp ==
    [][\A h \in Handlers :
          (/\ hs'[h] # hs[h]
           /\ hs'[h].kind \in {"feed", "conn"}
           /\ hs'[h].feedId \notin DOMAIN feeds) =>
             /\ feeds' = feeds
             /\ hs'[h].pc = "done"
             /\ hs'[h].modified = {}]_vars

\* C8 witness: both kinds of event have been handled for a missing feed.
C8_Witness ==
    \E h1, h2 \in Handlers :
        /\ hs[h1].pc = "done" /\ hs[h1].kind = "feed" /\ hs[h1].feedId \notin DOMAIN feeds
        /\ hs[h2].pc = "done" /\ hs[h2].kind = "conn" /\ hs[h2].feedId \notin DOMAIN feeds

\* The disabledCode at a write target: <<f>> or <<f, key, conIdx>>.
CodeAt(t) ==
    IF Len(t) = 1 THEN feeds[t[1]].disabledCode
    ELSE feeds[t[1]][t[2]][t[3] + 1].disabledCode

\* C9: of the handlers racing to disable one feed or one connection, at most
\* one has a write that took effect, the disabledCode is that writer's, and
\* once a feed-rejection handler is done its feed is disabled.
C9_FirstWriterWins ==
    /\ \A h1, h2 \in Handlers :
           h1 # h2 => hs[h1].modified \cap hs[h2].modified = {}
    /\ \A h \in Handlers : \A t \in hs[h].modified : CodeAt(t) = hs[h].code
    /\ \A h \in Handlers :
           (hs[h].pc = "done" /\ hs[h].kind = "feed" /\ hs[h].found) =>
              feeds[hs[h].feedId].disabledCode # Absent

\* C9 witness: a feed-rejection handler read an enabled feed, a
\* url-fetch-failed handler disabled it first, and the feed-rejection
\* handler's update matched nothing.
C9_Witness ==
    \E h1, h2 \in Handlers :
        /\ hs[h1].pc = "done" /\ hs[h1].kind = "url"
        /\ hs[h2].pc = "done" /\ hs[h2].kind = "feed" /\ hs[h2].found
        /\ <<hs[h2].feedId>> \in hs[h1].modified
        /\ hs[h2].modified = {}
        /\ feeds[hs[h2].feedId].disabledCode = FailedRequests

(***************************************************************************)
(* Entitlement lookup (external) and syncRefreshRates.                     *)
(***************************************************************************)
\* getBenefitsOfAllDiscordUsers returns one benefit record per account that
\* has one: `benefits` is that list.
Benefit(a, sup, rate, daily, maxFeeds) ==
    [discordUserId |-> a, isSupporter |-> sup, refreshRateSeconds |-> rate,
     maxDailyArticles |-> daily, maxUserFeeds |-> maxFeeds]

BenefitRates == {120, 300}

\* The benefit records one account can have: none, or one record.
BenefitChoices(a) ==
    {<<>>} \cup {<<Benefit(a, sup, r, IF sup THEN 1000 ELSE 0, IF sup THEN 35 ELSE 5)>> :
                    sup \in BOOLEAN, r \in BenefitRates}

BenefitLists == {x \o y : x \in BenefitChoices("U1"), y \in BenefitChoices("U2")}

\* The entitlements change (billing, expiry): external to the engine.
ChangeBenefits(b) ==
    /\ used.changes < MaxChanges
    /\ b # benefits
    /\ benefits' = b
    /\ used' = [used EXCEPT !.changes = @ + 1]
    /\ UNCHANGED <<feeds, hs, sync, disp, bus, supporters>>

\* benefits.filter(({ isSupporter }) => isSupporter)
ValidSupporters(bs) == SelectSeq(bs, LAMBDA b : b.isSupporter)

\* supportersByRefreshRates: refresh rate -> discord user ids.
SupportersByRefreshRates(bs) ==
    LET vs == ValidSupporters(bs)
    IN  [r \in {vs[i].refreshRateSeconds : i \in 1..Len(vs)} |->
            {vs[i].discordUserId : i \in {j \in 1..Len(vs) : vs[j].refreshRateSeconds = r}}]

\* The filter without its $in condition on the owner.
SyncRateFilter_AnyOwner(doc, discordUserIds, refreshRateSeconds) ==
    doc.refreshRateSeconds # refreshRateSeconds

\* The filter without its $ne condition.
SyncRateFilter_NoNe(doc, discordUserIds, refreshRateSeconds) ==
    doc.user \in discordUserIds

\* Filter of the per-rate updateMany of syncRefreshRates.
SyncRateFilter(doc, discordUserIds, refreshRateSeconds) ==
    /\ doc.user \in discordUserIds
    /\ doc.refreshRateSeconds # refreshRateSeconds

\* The filter without its $nin condition.
SyncDefaultFilter_NoNin(doc, specialDiscordUserIds) ==
    doc.refreshRateSeconds # DefaultRefreshRateSeconds

\* Filter of the final updateMany of syncRefreshRates.
SyncDefaultFilter(doc, specialDiscordUserIds) ==
    /\ doc.user \notin specialDiscordUserIds
    /\ doc.refreshRateSeconds # DefaultRefreshRateSeconds

\* syncRefreshRates up to Promise.all: the benefits are read and one
\* updateMany per refresh rate is issued.
SyncBegin(owner) ==
    /\ sync.pc = "idle"
    /\ sync' = [sync EXCEPT !.pc = "rates", !.owner = owner, !.benefits = benefits,
                            !.pending = DOMAIN SupportersByRefreshRates(benefits),
                            !.special = {}, !.matched = {}]

\* The store applies one of the updateMany calls in flight; its callback
\* then pushes the discord user ids to specialDiscordUserIds.
SyncRateUpdate(r) ==
    /\ sync.pc \in {"rates", "failed"}
    /\ r \in sync.pending
    /\ LET ids == SupportersByRefreshRates(sync.benefits)[r]
       IN  /\ feeds' = [f \in DOMAIN feeds |->
                           IF SyncRateFilter(feeds[f], ids, r)
                           THEN [feeds[f] EXCEPT !.refreshRateSeconds = r]
                           ELSE feeds[f]]
           /\ sync' = [sync EXCEPT !.pending = @ \ {r},
                          !.special = @ \cup ids,
                          !.matched = @ \cup {f \in DOMAIN feeds : SyncRateFilter(feeds[f], ids, r)}]
    /\ UNCHANGED <<benefits, hs, disp, used, bus, supporters>>

\* After Promise.all: the updateMany that resets all other feeds to the default.
SyncDefaultUpdate ==
    /\ sync.pc = "rates"
    /\ sync.pending = {}
    /\ feeds' = [f \in DOMAIN feeds |->
                    IF SyncDefaultFilter(feeds[f], sync.special)
                    THEN [feeds[f] EXCEPT !.refreshRateSeconds = DefaultRefreshRateSeconds]
                    ELSE feeds[f]]
    /\ sync' = [sync EXCEPT !.pc = "done",
                   !.matched = @ \cup {f \in DOMAIN feeds : SyncDefaultFilter(feeds[f], sync.special)}]
    /\ UNCHANGED <<benefits, hs, disp, used, bus, supporters>>

\* A scheduled syncRefreshRates() of its own.
SyncStart ==
    /\ SyncBegin("timer")
    /\ UNCHANGED <<feeds, benefits, hs, disp, used, bus, supporters>>

SyncReturn ==
    /\ sync.pc = "done"
    /\ sync.owner = "timer"
    /\ sync' = [IdleSync EXCEPT !.ran = TRUE, !.prev = sync.benefits]
    /\ UNCHANGED <<feeds, benefits, hs, disp, used, bus, supporters>>

SyncStep ==
    \/ SyncStart
    \/ \E r \in BenefitRates : SyncRateUpdate(r)
    \/ SyncDefaultUpdate
    \/ SyncReturn

Rates == BenefitRates \cup {DefaultRefreshRateSeconds}

\* Stores of the synchronisation specification: every owner and every rate.
InitSync ==
    /\ feeds \in [EventFeedIds ->
                    {Feed(f, r, a, Absent, <<Conn("d1", Absent)>>, <<>>) :
                        f \in {1}, r \in Rates, a \in Accounts}]
    /\ benefits \in BenefitLists
    /\ hs = [h \in Handlers |-> IdleHandler]
    /\ sync = IdleSync
    /\ disp = IdleDisp
    /\ used = [events |-> 0, edits |-> 0, changes |-> 0]
    /\ bus = <<>>
    /\ supporters = IdleSup

\* syncRefreshRates alone, between changes of the entitlements.
NextSync == SyncStep \/ \E b \in BenefitLists : ChangeBenefits(b)
SpecSync == InitSync /\ [][NextSync]_vars

\* The rate the benefit list bs entitles account a to.
EntitledRate(bs, a) ==
    IF \E i \in 1..Len(bs) : bs[i].discordUserId = a /\ bs[i].isSupporter
    THEN (CHOOSE b \in {bs[i] : i \in 1..Len(bs)} :
              b.discordUserId = a /\ b.isSupporter).refreshRateSeconds
    ELSE DefaultRefreshRateSeconds

\* C1: when syncRefreshRates has completed, every feed is at the entitled
\* rate of its account if the account has a benefit with isSupporter, and at
\* the default rate otherwise.
C1_SyncAssignsEntitledRate ==
    sync.pc = "done" =>
        \A f \in DOMAIN feeds :
            feeds[f].refreshRateSeconds = EntitledRate(sync.benefits, feeds[f].user)

\* C1 witness: a run has completed that moved one feed from the default to
\* a supporter's rate and another from a supporter's rate to the default.
C1_Witness ==
    /\ sync.pc = "done"
    /\ sync.matched = {1, 2}
    /\ feeds[1].refreshRateSeconds = 300
    /\ feeds[2].refreshRateSeconds = DefaultRefreshRateSeconds
    /\ feeds[1].user # feeds[2].user

\* C2: a run of syncRefreshRates that reads the same benefits as the run
\* before it matches no feed in any of its updates.
C2_SecondSyncMatchesNothing ==
    (sync.ran /\ sync.prev = sync.benefits) => sync.matched = {}

\* C2 witness: the second run in a row has completed with the benefits of
\* the first, which hold a supporter whose rate is not the default.
C2_Witness ==
    /\ sync.pc = "done"
    /\ sync.ran
    /\ sync.prev = sync.benefits
    /\ \E f \in DOMAIN feeds : feeds[f].refreshRateSeconds # DefaultRefreshRateSeconds

(***************************************************************************)
(* handleRefreshRate.                                                      *)
(***************************************************************************)
ChunkSize == 25
MaxDailyArticlesDefault == 50

Min(a, b) == IF a < b THEN a ELSE b

\* The members of a set of numbers in ascending order.
Ascending(S) ==
    IF S = {} THEN <<>>
    ELSE LET lo == CHOOSE x \in S : \A y \in S : x <= y
             hi == CHOOSE x \in S : \A y \in S : y <= x
         IN  SelectSeq([i \in 1..(hi - lo + 1) |-> lo + i - 1], LAMBDA x : x \in S)

\* lodash chunk(array, size).
RECURSIVE chunk(_, _)
chunk(array, size) ==
    IF Len(array) = 0 THEN <<>>
    ELSE <<SubSeq(array, 1, Min(size, Len(array)))>>
         \o chunk(SubSeq(array, size + 1, Len(array)), size)

\* $elemMatch: {disabledCode: {$exists: false}} on one array element.
ElemMatchEnabled(c) == IsDoc(c) /\ c.disabledCode = Absent

\* The branch with only its "<key>.0 exists" condition.
HasEnabledConnection_OnlyExists(doc, key) ==
    Len(doc[key]) >= 1

\* One branch of the $or of getFeedsQuery.
HasEnabledConnection(doc, key) ==
    /\ Len(doc[key]) >= 1
    /\ \E i \in 1..Len(doc[key]) : ElemMatchEnabled(doc[key][i])

\* The filter of getFeedsQuery(rate).
getFeedsQuery(doc, rate) ==
    /\ doc.refreshRateSeconds = rate
    /\ doc.disabledCode = Absent
    /\ \/ HasEnabledConnection(doc, Keys[1])
       \/ HasEnabledConnection(doc, Keys[2])

\* The URLs of the matching feeds, one per feed, without distinct().
getUrlsMatchingRefreshRate_NotDistinct(store, rate) ==
    LET ids == Ascending({g \in DOMAIN store : getFeedsQuery(store[g], rate)})
    IN  [i \in 1..Len(ids) |-> store[ids[i]].url]

\* getUrlsMatchingRefreshRate: distinct("url") of the query, here in
\* ascending order.
getUrlsMatchingRefreshRate(store, rate) ==
    Ascending({store[f].url : f \in {g \in DOMAIN store : getFeedsQuery(store[g], rate)}})

\* dailyLimitsByDiscordUserId.
DailyLimitsByDiscordUserId(bs) ==
    [a \in {bs[i].discordUserId : i \in 1..Len(bs)} |->
        (CHOOSE b \in {bs[i] : i \in 1..Len(bs)} : b.discordUserId = a).maxDailyArticles]

\* dailyLimitsByDiscordUserId.get(discordUserId) || maxDailyArticlesDefault
MaxDailyArticlesFor(limits, discordUserId) ==
    IF discordUserId \in DOMAIN limits /\ limits[discordUserId] # 0
    THEN limits[discordUserId]
    ELSE MaxDailyArticlesDefault

\* handleRefreshRate is called for a rate: it awaits syncRefreshRates().
DispStart(rate) ==
    /\ disp.pc = "idle"
    /\ SyncBegin("dispatch")
    /\ disp' = [IdleDisp EXCEPT !.pc = "sync", !.rate = rate]
    /\ UNCHANGED <<feeds, benefits, hs, used, bus, supporters>>

\* syncRefreshRates() called and not awaited: the pass goes on while the
\* updates are in flight.
DispReadBenefits_SyncNotAwaited ==
    /\ disp.pc = "sync"
    /\ sync.owner = "dispatch"
    /\ disp' = [disp EXCEPT !.pc = "urls", !.limits = DailyLimitsByDiscordUserId(benefits)]
    /\ UNCHANGED <<feeds, benefits, hs, sync, used, bus, supporters>>

\* syncRefreshRates has returned: getBenefitsOfAllDiscordUsers is read and
\* dailyLimitsByDiscordUserId is built.
DispReadBenefits ==
    /\ disp.pc = "sync"
    /\ sync.pc = "done"
    /\ sync.owner = "dispatch"
    /\ sync' = [IdleSync EXCEPT !.ran = TRUE, !.prev = sync.benefits]
    /\ disp' = [disp EXCEPT !.pc = "urls", !.limits = DailyLimitsByDiscordUserId(benefits)]
    /\ UNCHANGED <<feeds, benefits, hs, used, bus, supporters>>

\* The distinct-URL query, chunk(), and the call of urlsHandler on every chunk.
DispQueryUrls ==
    /\ disp.pc = "urls"
    /\ LET batches == chunk(getUrlsMatchingRefreshRate(feeds, disp.rate), ChunkSize)
       IN  disp' = [disp EXCEPT !.pc = "batches", !.batches = batches,
                                !.inflight = 1..Len(batches)]
    /\ UNCHANGED <<feeds, benefits, hs, sync, used, bus, supporters>>

\* One urlsHandler call resolves.
UrlsHandlerResolve(i) ==
    /\ disp.pc \in {"batches", "failed"}
    /\ i \in disp.inflight
    /\ disp' = [disp EXCEPT !.inflight = @ \ {i}]
    /\ UNCHANGED <<feeds, benefits, hs, sync, used, bus, supporters>>

\* One urlsHandler call rejects: Promise.all rejects and the pass fails.
UrlsHandlerReject(i) ==
    /\ disp.pc = "batches"
    /\ i \in disp.inflight
    /\ disp' = [disp EXCEPT !.pc = "failed", !.inflight = @ \ {i}, !.rejected = TRUE]
    /\ UNCHANGED <<feeds, benefits, hs, sync, used, bus, supporters>>

\* The batch calls started and not awaited.
PromiseAllResolved_NotAwaited(d) == TRUE

\* await Promise.all(...): every urlsHandler call has resolved.
PromiseAllResolved(d) == d.inflight = {}

\* getFeedCursorMatchingRefreshRate: the cursor is created.
DispOpenCursor ==
    /\ disp.pc = "batches"
    /\ PromiseAllResolved(disp)
    /\ disp' = [disp EXCEPT !.pc = "cursor", !.lastId = 0, !.buffer = <<>>]
    /\ UNCHANGED <<feeds, benefits, hs, sync, used, bus, supporters>>

\* The documents behind the cursor position that match the query now.
CursorRemaining(store, d) ==
    Ascending({f \in DOMAIN store : f > d.lastId /\ getFeedsQuery(store[f], d.rate)})

\* await feedHandler(...): no call of feedHandler is in progress.
FeedHandlerAwaited(d) == d.active = {}

\* One iteration of for await: the cursor yields its next document (from its
\* buffer, or from a fetch of the next one or of all remaining documents) and
\* feedHandler is called on it; the loop ends when no document is left.
DispNextFeed ==
    /\ disp.pc = "cursor"
    /\ FeedHandlerAwaited(disp)
    /\ \E all \in BOOLEAN :
         LET rem == CursorRemaining(feeds, disp)
             n == IF all THEN Len(rem) ELSE Min(1, Len(rem))
             fetched == [i \in 1..n |-> [id |-> rem[i], doc |-> feeds[rem[i]]]]
             buf == IF disp.buffer # <<>> THEN disp.buffer ELSE fetched
         IN  /\ disp.buffer # <<>> => all
             /\ IF buf = <<>>
                THEN disp' = [disp EXCEPT !.pc = "done"]
                ELSE disp' = [disp EXCEPT
                        !.buffer = Tail(buf),
                        !.lastId = IF disp.buffer # <<>> THEN @ ELSE rem[n],
                        !.active = @ \cup {buf[1].id},
                        !.handled = Append(@, [id |-> buf[1].id, doc |-> buf[1].doc,
                                               maxDailyArticles |->
                                                  MaxDailyArticlesFor(disp.limits, buf[1].doc.user)])]
    /\ UNCHANGED <<feeds, benefits, hs, sync, used, bus, supporters>>

\* The feedHandler call in progress resolves.
FeedHandlerResolve ==
    /\ disp.pc = "cursor"
    /\ \E f \in disp.active : disp' = [disp EXCEPT !.active = @ \ {f}]
    /\ UNCHANGED <<feeds, benefits, hs, sync, used, bus, supporters>>

\* The rejection of feedHandler caught, the loop going on.
FeedHandlerReject_Swallowed ==
    /\ disp.pc = "cursor"
    /\ \E f \in disp.active :
          disp' = [disp EXCEPT !.active = @ \ {f}, !.rejected = TRUE]
    /\ UNCHANGED <<feeds, benefits, hs, sync, used, bus, supporters>>

\* The feedHandler call in progress rejects: the pass fails.
FeedHandlerReject ==
    /\ disp.pc = "cursor"
    /\ \E f \in disp.active :
          disp' = [disp EXCEPT !.pc = "failed", !.active = @ \ {f}, !.rejected = TRUE]
    /\ UNCHANGED <<feeds, benefits, hs, sync, used, bus, supporters>>

\* The store operation the pass is awaiting rejects: an updateMany of
\* syncRefreshRates (the others in flight may still be applied), the read of
\* the benefits, the distinct-URL query, or a fetch of the cursor.  Nothing
\* catches the rejection: handleRefreshRate rejects.
DispAwaitedRejects ==
    /\ disp.pc \in {"sync", "urls", "cursor"}
    /\ disp.pc = "cursor" => FeedHandlerAwaited(disp) /\ disp.buffer = <<>>
    /\ disp' = [disp EXCEPT !.pc = "failed", !.rejected = TRUE]
    /\ IF disp.pc = "sync" /\ sync.pc = "rates"
       THEN IF sync.pending = {}
            THEN sync' = [sync EXCEPT !.pc = "failed"]
            ELSE \E r \in sync.pending :
                    sync' = [sync EXCEPT !.pc = "failed", !.pending = @ \ {r}]
       ELSE UNCHANGED sync
    /\ UNCHANGED <<feeds, benefits, hs, used, bus, supporters>>

DispStep ==
    \/ \E r \in Rates : DispStart(r)
    \/ \E r \in BenefitRates : SyncRateUpdate(r)
    \/ SyncDefaultUpdate
    \/ DispReadBenefits
    \/ DispQueryUrls
    \/ \E i \in 1..(NumEventFeeds + NumFillerFeeds) : UrlsHandlerResolve(i)
    \/ \E i \in 1..(NumEventFeeds + NumFillerFeeds) : UrlsHandlerReject(i)
    \/ DispOpenCursor
    \/ DispNextFeed
    \/ FeedHandlerResolve
    \/ FeedHandlerReject
    \/ DispAwaitedRejects

FillerFeedIds == (NumEventFeeds + 1)..(NumEventFeeds + NumFillerFeeds)

\* Stores of the dispatch specification: feeds 1..NumEventFeeds share a URL
\* and vary in rate and in being dispatchable (an enabled webhook), having
\* only a disabled channel, being disabled themselves, or having no
\* connection; the other feeds are enabled feeds of account
\* U1 with one enabled channel and a URL of their own.
InitDispatch ==
    /\ \E ev \in [EventFeedIds ->
                    {Feed(1, r, "U2", c[1], c[2], c[3]) :
                        r \in {300, DefaultRefreshRateSeconds},
                        c \in {<<Absent, <<>>, <<Conn("d2", Absent)>>>>,
                               <<Absent, <<Conn("d1", Manual)>>, <<>>>>,
                               <<Manual, <<Conn("d1", Manual)>>, <<Conn("d2", Absent)>>>>,
                               <<Absent, <<>>, <<>>>>}}] :
          feeds = [f \in EventFeedIds \cup FillerFeedIds |->
                     IF f \in EventFeedIds THEN ev[f]
                     ELSE Feed(f, DefaultRefreshRateSeconds, "U1", Absent,
                               <<Conn("d1", Absent)>>, <<>>)]
    /\ benefits \in {<<>>, <<Benefit("U1", TRUE, 300, 1000, 35)>>,
                     <<Benefit("U1", FALSE, 300, 0, 5), Benefit("U2", TRUE, 300, 1000, 35)>>}
    /\ hs = [h \in Handlers |-> IdleHandler]
    /\ sync = IdleSync
    /\ disp = IdleDisp
    /\ used = [events |-> 0, edits |-> 0, changes |-> 0]
    /\ bus = <<>>
    /\ supporters = IdleSup

\* One handleRefreshRate pass at a time, nothing else running.
NextDispatch == DispStep
SpecDispatch == InitDispatch /\ [][NextDispatch]_vars

\* The two handler records are of the same event.
SameEvent(a, b) ==
    /\ a.kind = b.kind /\ a.url = b.url /\ a.feedId = b.feedId
    /\ a.mediumId = b.mediumId /\ a.code = b.code

\* C15: once a handler has finished handling an event, every step another
\* handler takes on a delivery of the same event (its lookup and each of its
\* updates) leaves the store as it is and matches no document: the store
\* after the replay is the store after the first handling.
C15_ReplayChangesNothing ==
    [][\A g, h \in Handlers :
          (g # h /\ hs[g].pc = "done" /\ hs'[h] # hs[h] /\ hs'[h].pc # "idle"
             /\ SameEvent(hs[g], hs'[h]))
          => /\ feeds' = feeds
             /\ hs'[h].modified = hs[h].modified]_vars

\* C15 witness: one handler has handled a destination-rejected event and
\* disabled the destination, and the other handler has then handled the same
\* event to its end and modified nothing.
C15_Witness ==
    \E g, h \in Handlers :
       /\ g # h
       /\ hs[g].pc = "done" /\ hs[g].kind = "conn" /\ hs[g].modified # {}
       /\ hs[h].pc = "done" /\ SameEvent(hs[g], hs[h]) /\ hs[h].modified = {}
       /\ hs[h].pos > 1
       /\ \E t \in hs[g].modified : CodeAt(t) = hs[g].code

(***************************************************************************)
(* Properties of handleRefreshRate.                                        *)
(***************************************************************************)
\* A connection of the document is a destination without a disabledCode.
HasEnabledDestination(doc) ==
    \E k \in 1..2 : \E i \in 1..Len(doc[Keys[k]]) :
        doc[Keys[k]][i].id \in DestIds /\ doc[Keys[k]][i].disabledCode = Absent

\* The document is one handleRefreshRate(r) may dispatch.
Dispatchable(doc, r) ==
    /\ doc.refreshRateSeconds = r
    /\ doc.disabledCode = Absent
    /\ HasEnabledDestination(doc)

\* The URLs of all batches of the pass.
BatchUrls(d) == UNION {{d.batches[b][j] : j \in 1..Len(d.batches[b])} : b \in 1..Len(d.batches)}

\* C4 as amended: every feed handleRefreshRate(r) passes to feedHandler has
\* rate r, no disabledCode and at least one enabled destination, and every
\* URL put into a batch is the URL of at least one such feed.
C4_OnlyDispatchableFeeds ==
    [][/\ Len(disp'.handled) > Len(disp.handled) =>
             Dispatchable(disp'.handled[Len(disp'.handled)].doc, disp.rate)
       /\ (disp.pc = "urls" /\ disp'.pc = "batches") =>
             \A u \in BatchUrls(disp') :
                \E f \in DOMAIN feeds : feeds[f].url = u /\ Dispatchable(feeds[f], disp.rate)]_vars

\* C4 as stated: every feed passed to feedHandler is dispatchable, and no URL
\* put into a batch is the URL of a feed with zero enabled destinations.
C4_NoUrlOfFeedWithoutDestination ==
    [][/\ Len(disp'.handled) > Len(disp.handled) =>
             Dispatchable(disp'.handled[Len(disp'.handled)].doc, disp.rate)
       /\ (disp.pc = "urls" /\ disp'.pc = "batches") =>
             \A u \in BatchUrls(disp') :
                \A f \in DOMAIN feeds : feeds[f].url = u => HasEnabledDestination(feeds[f])]_vars

\* C4 witness: a pass has run to its end and handled feeds, while the store
\* holds a feed of the pass's rate and without disabledCode whose only
\* connection is disabled; that feed was not handled, and its URL was
\* batched because a handled feed has the same URL.
C4_Witness ==
    /\ disp.pc = "done"
    /\ Len(disp.handled) > 0
    /\ \E f \in DOMAIN feeds :
          /\ feeds[f].refreshRateSeconds = disp.rate
          /\ feeds[f].disabledCode = Absent
          /\ Len(feeds[f].discordChannels) > 0
          /\ ~HasEnabledDestination(feeds[f])
          /\ \A i \in 1..Len(disp.handled) : disp.handled[i].id # f
          /\ feeds[f].url \in BatchUrls(disp)

\* C10: while a feedHandler call is in progress, and once one has been made,
\* no urlsHandler call of the pass is still in flight; and at most one
\* feedHandler call is in progress at any time.
C10_BatchesBeforeFeedsSequential ==
    /\ (disp.active # {} \/ Len(disp.handled) > 0) => disp.inflight = {}
    /\ Cardinality(disp.active) <= 1

\* C10 witness: a pass with two URL batches is handling its second feed.
C10_Witness ==
    /\ Len(disp.batches) = 2
    /\ Len(disp.handled) = 2
    /\ disp.active # {}

(***************************************************************************)
(* A handleRefreshRate pass with other writers.  Nothing locks the store    *)
(* for a pass: between its URL query and the end of its cursor iteration    *)
(* the outcome-event handlers, the admin layer, a change of the             *)
(* entitlements and a scheduled syncRefreshRates() take their steps.        *)
(***************************************************************************)
RaceBenefitLists == {<<>>, <<Benefit("U2", TRUE, 300, 1000, 35)>>}

\* The pass is between its URL query and the end of its cursor iteration.
InQueryWindow(d) == d.pc \in {"batches", "cursor"}

\* No other writer has started yet: one outcome event, one admin edit or
\* one change of the entitlements runs beside a pass.
NoWriterYet(u) == u.events + u.edits + u.changes = 0

\* Another writer starts while the pass is in its window.
RaceStart ==
    /\ InQueryWindow(disp)
    /\ NoWriterYet(used)
    /\ \/ \E h \in Handlers :
             \/ \E url \in EventUrls : handleUrlRequestFailureEvent(h, url)
             \/ \E f \in EventFeedIds, rc \in FeedRejectCodes : FeedRejectedFind(h, f, rc)
             \/ \E m \in DestIds, rc \in ArticleRejectCodes : ConnRejectedFind(h, 1, m, rc)
       \/ AdminStep
       \/ \E b \in RaceBenefitLists : ChangeBenefits(b)

\* A handler that has started takes its next step.
RaceContinue ==
    \E h \in Handlers :
        \/ FeedRejectedUpdate(h)
        \/ ConnRejectedStep(h)
        \/ HandlerReturn(h)

\* A scheduled syncRefreshRates() starts or returns while the pass is in its
\* window; its updates are steps of DispStep.
RaceSync ==
    /\ InQueryWindow(disp)
    /\ \/ SyncStart
       \/ SyncReturn

RaceStep == RaceStart \/ RaceContinue \/ RaceSync

\* Stores of the racing specification: feed 1 without a connection or with
\* one enabled channel, feed 2 with one enabled channel, each with a URL of
\* its own.
InitRace ==
    /\ \E ch \in {<<>>, <<Conn("d1", Absent)>>} :
       \E r \in {300, DefaultRefreshRateSeconds} :
          feeds = [f \in EventFeedIds |->
                     IF f = 1
                     THEN Feed(1, DefaultRefreshRateSeconds, "U1", Absent, ch, <<>>)
                     ELSE Feed(f, r, "U2", Absent, <<Conn("d2", Absent)>>, <<>>)]
    /\ benefits \in RaceBenefitLists
    /\ hs = [h \in Handlers |-> IdleHandler]
    /\ sync = IdleSync
    /\ disp = IdleDisp
    /\ used = [events |-> 0, edits |-> 0, changes |-> 0]
    /\ bus = <<>>
    /\ supporters = IdleSup

NextRace == DispStep \/ RaceStep
SpecRace == InitRace /\ [][NextRace]_vars

(***************************************************************************)
(* The published messages and enforceUserFeedLimits.  An entry of `bus` is  *)
(* one publish on a queue (queue, payload, expiration) or one call of a     *)
(* collaborating service (queue is the name of the operation called).       *)
(* Date.now() is read as the number of entries made so far.                 *)
(***************************************************************************)
\* emitUrlRequestEvent(data).
emitUrlRequestEvent(data, now) ==
    [queue |-> "UrlFetch",
     payload |-> [data |-> data],
     expiration |-> data.rateSeconds * 1000]

\* The batch event with its expiration in seconds.
emitUrlRequestBatchEvent_Seconds(data, now) ==
    [queue |-> "UrlFetchBatch",
     payload |-> [rateSeconds |-> data.rateSeconds, data |-> data.data, timestamp |-> now],
     expiration |-> data.rateSeconds]

\* emitUrlRequestBatchEvent(data).
emitUrlRequestBatchEvent(data, now) ==
    [queue |-> "UrlFetchBatch",
     payload |-> [rateSeconds |-> data.rateSeconds, data |-> data.data, timestamp |-> now],
     expiration |-> data.rateSeconds * 1000]

\* A filter that keeps every connection.
NotDisabled_KeepsAll(c) == TRUE

\* (c) => !c.disabledCode on a connection document.
NotDisabled(c) == c.disabledCode = Absent

\* One element of discordChannelMediums / discordWebhookMediums.
Medium(con, kind) == [id |-> con.id, key |-> "discord", kind |-> kind]

\* connections.<key>.filter(...).map(...).
MediumsOf(list, kind) ==
    LET kept == SelectSeq(list, NotDisabled)
    IN  [i \in 1..Len(kept) |-> Medium(kept[i], kind)]

\* The filter callback reads c.disabledCode: it throws on a null element.
DeliverThrows(userFeed) ==
    \E k \in 1..2 : \E i \in 1..Len(userFeed[Keys[k]]) : ~IsDoc(userFeed[Keys[k]][i])

\* emitDeliverFeedArticlesEvent({userFeed, maxDailyArticles}).
emitDeliverFeedArticlesEvent(id, userFeed, maxDailyArticles, now) ==
    IF DeliverThrows(userFeed) THEN [queue |-> "TypeError"]
    ELSE [queue |-> "FeedDeliverArticles",
          payload |-> [timestamp |-> now,
                       articleDayLimit |-> maxDailyArticles,
                       feed |-> [id |-> id, url |-> userFeed.url],
                       mediums |-> MediumsOf(userFeed.discordChannels, "channel")
                                   \o MediumsOf(userFeed.discordWebhooks, "webhook")],
          expiration |-> 1000 * 60 * 60]

\* The pairs of the valid supporters only.
FeedLimitsOf_OnlySupporters(bs) ==
    LET sup == SelectSeq(bs, LAMBDA b : b.isSupporter)
    IN  [i \in 1..Len(sup) |-> [discordUserId |-> sup[i].discordUserId,
                                maxUserFeeds |-> sup[i].maxUserFeeds]]

\* benefits.map(({discordUserId, maxUserFeeds}) => ({discordUserId, maxUserFeeds})).
FeedLimitsOf(bs) ==
    [i \in 1..Len(bs) |-> [discordUserId |-> bs[i].discordUserId,
                           maxUserFeeds |-> bs[i].maxUserFeeds]]

EmitUrlRequest(url, rateSeconds) ==
    /\ Len(bus) < MaxPublished
    /\ bus' = Append(bus, emitUrlRequestEvent([url |-> url, rateSeconds |-> rateSeconds], Len(bus)))
    /\ UNCHANGED <<feeds, benefits, hs, sync, disp, used, supporters>>

EmitUrlRequestBatch(rateSeconds, urls) ==
    /\ Len(bus) < MaxPublished
    /\ bus' = Append(bus, emitUrlRequestBatchEvent(
                             [rateSeconds |-> rateSeconds,
                              data |-> [i \in 1..Len(urls) |-> [url |-> urls[i]]]], Len(bus)))
    /\ UNCHANGED <<feeds, benefits, hs, sync, disp, used, supporters>>

EmitDeliverFeedArticles(f, maxDailyArticles) ==
    /\ Len(bus) < MaxPublished
    /\ f \in DOMAIN feeds
    /\ bus' = Append(bus, emitDeliverFeedArticlesEvent(f, feeds[f], maxDailyArticles, Len(bus)))
    /\ UNCHANGED <<feeds, benefits, hs, sync, disp, used, supporters>>

\* enforceUserFeedLimits(): the benefits are read and
\* userFeedsService.enforceUserFeedLimits is called with their projection.
EnforceUserFeedLimits ==
    /\ Len(bus) < MaxPublished
    /\ bus' = Append(bus, [queue |-> "enforceUserFeedLimits", args |-> FeedLimitsOf(benefits)])
    /\ UNCHANGED <<feeds, benefits, hs, sync, disp, used, supporters>>

EmitStep ==
    \/ \E r \in Rates : EmitUrlRequest(1, r)
    \/ \E r \in Rates : \E urls \in {<<1>>, <<1, 2>>} : EmitUrlRequestBatch(r, urls)
    \/ \E f \in EventFeedIds : \E d \in {MaxDailyArticlesDefault, 1000} :
          EmitDeliverFeedArticles(f, d)
    \/ EnforceUserFeedLimits

\* Stores of the publishing specification: one feed with every array of
\* channels and three arrays of webhooks, and benefit lists in both orders.
InitEmit ==
    /\ \E r \in {300, DefaultRefreshRateSeconds} :
       \E ch \in ConnLists(MaxDests) :
       \E wh \in {<<>>, <<Conn("d2", Absent)>>, <<Conn("d1", Manual), Conn("d2", Absent)>>} :
          feeds = [f \in {1} |-> Feed(1, r, "U1", Absent, ch, wh)]
    /\ benefits \in {<<>>,
                     <<Benefit("U1", FALSE, 300, 0, 5), Benefit("U2", TRUE, 300, 1000, 35)>>,
                     <<Benefit("U2", TRUE, 120, 1000, 35), Benefit("U1", FALSE, 300, 0, 5)>>}
    /\ hs = [h \in Handlers |-> IdleHandler]
    /\ sync = IdleSync
    /\ disp = IdleDisp
    /\ used = [events |-> 0, edits |-> 0, changes |-> 0]
    /\ bus = <<>>
    /\ supporters = IdleSup

NextEmit == EmitStep
SpecEmit == InitEmit /\ [][NextEmit]_vars

\* C11: when handleRefreshRate computes its batches from n qualifying distinct
\* URLs, it calls urlsHandler once per batch on ceil(n/25) batches, all but
\* the last of 25 URLs and the last of 1 to 25, and every qualifying URL is
\* at exactly one place of exactly one batch, and no other URL is in a batch.
C11_BatchesPartitionUrls ==
    [][(disp.pc = "urls" /\ disp'.pc = "batches") =>
          LET Q == {feeds[f].url : f \in {g \in DOMAIN feeds : Dispatchable(feeds[g], disp.rate)}}
              n == Cardinality(Q)
              bs == disp'.batches
          IN  /\ Len(bs) = (n + 24) \div 25
              /\ disp'.inflight = 1..Len(bs)
              /\ \A b \in 1..Len(bs) :
                    /\ Len(bs[b]) >= 1 /\ Len(bs[b]) <= 25
                    /\ b < Len(bs) => Len(bs[b]) = 25
              /\ BatchUrls(disp') = Q
              /\ \A u \in Q :
                    Cardinality({p \in (1..Len(bs)) \X (1..25) :
                                    p[2] <= Len(bs[p[1]]) /\ bs[p[1]][p[2]] = u}) = 1]_vars

\* C11 witness: a pass has computed two batches, of 25 URLs and of one URL,
\* the second holding the URL two qualifying feeds share.
C11_Witness ==
    /\ disp.pc = "batches"
    /\ Len(disp.batches) = 2
    /\ Len(disp.batches[1]) = 25
    /\ Len(disp.batches[2]) = 1
    /\ Cardinality({f \in DOMAIN feeds : Dispatchable(feeds[f], disp.rate)
                                          /\ feeds[f].url \in BatchUrls(disp)}) = NumFillerFeeds + 2

\* C14 as stated: the maxDailyArticles of every feedHandler call is the
\* maxDailyArticles of the benefit record of the feed's account when there is
\* such a record, whatever its value, and the default only when there is none.
C14_EntitlementWheneverRecord ==
    \A i \in 1..Len(disp.handled) :
        LET a == disp.handled[i].doc.user
            recs == {j \in 1..Len(benefits) : benefits[j].discordUserId = a}
        IN  IF recs = {}
            THEN disp.handled[i].maxDailyArticles = MaxDailyArticlesDefault
            ELSE \A j \in recs :
                    disp.handled[i].maxDailyArticles = benefits[j].maxDailyArticles

\* The positions of the list that hold an enabled destination.
EnabledPositions(list) == {j \in 1..Len(list) : list[j].disabledCode = Absent}

\* C13: in every published deliver-articles message, every destination of the
\* feed without disabledCode has exactly one entry in mediums and every
\* destination with a disabledCode has none; the entries of the channels come
\* before those of the webhooks, each group in the order of its list; and no
\* publication has failed.
C13_MediumsAreEnabledDestinations ==
    \A i \in 1..Len(bus) :
       /\ bus[i].queue # "TypeError"
       /\ bus[i].queue = "FeedDeliverArticles" =>
            LET doc == feeds[bus[i].payload.feed.id]
                ms == bus[i].payload.mediums
                ch == doc.discordChannels
                wh == doc.discordWebhooks
                Entries(id, kind) == {k \in 1..Len(ms) : ms[k].id = id /\ ms[k].kind = kind}
                nc == Cardinality(EnabledPositions(ch))
            IN  /\ Len(ms) = nc + Cardinality(EnabledPositions(wh))
                /\ \A j \in 1..Len(ch) :
                      Cardinality(Entries(ch[j].id, "channel")) =
                         IF j \in EnabledPositions(ch) THEN 1 ELSE 0
                /\ \A j \in 1..Len(wh) :
                      Cardinality(Entries(wh[j].id, "webhook")) =
                         IF j \in EnabledPositions(wh) THEN 1 ELSE 0
                /\ \A k \in 1..Len(ms) : ms[k].kind = (IF k <= nc THEN "channel" ELSE "webhook")
                /\ \A j1, j2 \in EnabledPositions(ch) :
                      j1 < j2 => \A k1 \in Entries(ch[j1].id, "channel") :
                                 \A k2 \in Entries(ch[j2].id, "channel") : k1 < k2
                /\ \A j1, j2 \in EnabledPositions(wh) :
                      j1 < j2 => \A k1 \in Entries(wh[j1].id, "webhook") :
                                 \A k2 \in Entries(wh[j2].id, "webhook") : k1 < k2

\* C13 witness: a deliver-articles message was published for a feed with a
\* disabled channel, an enabled channel, a disabled webhook and an enabled
\* webhook, and its mediums are the enabled channel and then the enabled
\* webhook.
C13_Witness ==
    \E i \in 1..Len(bus) :
       /\ bus[i].queue = "FeedDeliverArticles"
       /\ LET doc == feeds[bus[i].payload.feed.id]
          IN  /\ Len(doc.discordChannels) = 2
              /\ doc.discordChannels[1].disabledCode # Absent
              /\ doc.discordChannels[2].disabledCode = Absent
              /\ Len(doc.discordWebhooks) = 2
              /\ doc.discordWebhooks[1].disabledCode # Absent
              /\ bus[i].payload.mediums =
                    <<Medium(doc.discordChannels[2], "channel"),
                      Medium(doc.discordWebhooks[2], "webhook")>>

\* C17: a step that calls the account-feed-count enforcement operation makes
\* exactly one call; its argument has one pair per benefit record, in the
\* order of the records, with the record's account id and max-feeds
\* entitlement; and the step writes nothing to the store.
C17_EnforceProjectsBenefits ==
    [][(Len(bus') > Len(bus) /\ bus'[Len(bus')].queue = "enforceUserFeedLimits") =>
          LET args == bus'[Len(bus')].args
          IN  /\ bus' = Append(bus, bus'[Len(bus')])
              /\ Len(args) = Len(benefits)
              /\ \A j \in 1..Len(benefits) :
                    /\ args[j].discordUserId = benefits[j].discordUserId
                    /\ args[j].maxUserFeeds = benefits[j].maxUserFeeds
                    /\ DOMAIN args[j] = {"discordUserId", "maxUserFeeds"}
              /\ feeds' = feeds]_vars

\* C17 witness: the enforcement operation was called with the pairs of two
\* benefit records, the second of an account that is no supporter.
C17_Witness ==
    \E i \in 1..Len(bus) :
       /\ bus[i].queue = "enforceUserFeedLimits"
       /\ Len(benefits) = 2
       /\ ~benefits[2].isSupporter
       /\ bus[i].args = <<[discordUserId |-> "U2", maxUserFeeds |-> 35],
                          [discordUserId |-> "U1", maxUserFeeds |-> 5]>>

\* C18: every published fetch-request message, single or batch, has an
\* expiration of 1000 times the rateSeconds it was emitted with, and every
\* published deliver-articles message has an expiration of 3 600 000.
C18_Expirations ==
    \A i \in 1..Len(bus) :
       /\ bus[i].queue = "UrlFetch" =>
             bus[i].expiration = bus[i].payload.data.rateSeconds * 1000
       /\ bus[i].queue = "UrlFetchBatch" =>
             bus[i].expiration = bus[i].payload.rateSeconds * 1000
       /\ bus[i].queue = "FeedDeliverArticles" => bus[i].expiration = 3600000

\* C18 witness: a batch fetch-request for rate 120 with expiration 120 000
\* and a deliver-articles message of a feed of rate 300 have been published.
C18_Witness ==
    /\ \E i \in 1..Len(bus) :
          /\ bus[i].queue = "UrlFetchBatch"
          /\ bus[i].payload.rateSeconds = 120
          /\ bus[i].expiration = 120000
    /\ \E i \in 1..Len(bus) :
          /\ bus[i].queue = "FeedDeliverArticles"
          /\ feeds[bus[i].payload.feed.id].refreshRateSeconds = 300
          /\ bus[i].expiration = 3600000

\* C16: a rejection of anything handleRefreshRate awaits ends the pass in
\* failure; a failed pass stays failed, starts nothing and calls feedHandler
\* on no further feed; and a pass that fails before its cursor iteration (in
\* the synchronization, a store query or a urlsHandler call) has called
\* feedHandler on no feed.
C16_FailsOutright ==
    [][/\ disp'.rejected => disp'.pc = "failed"
       /\ disp.pc = "failed" =>
             /\ disp'.pc = "failed"
             /\ disp'.handled = disp.handled
             /\ disp'.batches = disp.batches
             /\ disp'.active \subseteq disp.active
             /\ disp'.inflight \subseteq disp.inflight
       /\ (disp.pc # "failed" /\ disp'.pc = "failed") =>
             /\ disp'.rejected
             /\ disp'.handled = disp.handled
             /\ disp.pc \in {"sync", "urls", "batches"} => disp'.handled = <<>>]_vars

\* C16 witness: feedHandler has rejected on the first feed of a pass, the
\* pass has failed, and the feeds behind it in the cursor are not handled.
C16_Witness ==
    /\ disp.pc = "failed"
    /\ disp.rejected
    /\ Len(disp.handled) = 1
    /\ disp.active = {}
    /\ Len(CursorRemaining(feeds, disp)) + Len(disp.buffer) >= 2

\* C19: from the moment handleRefreshRate is about to issue its URL query to
\* the end of its cursor iteration, the synchronization it started has
\* completed (no update of it is pending or in flight), every feed has the
\* rate that synchronization's benefits entitle its owner to, and every feed
\* passed to feedHandler was selected at that rate.
C19_SyncCompleteBeforeQueries ==
    disp.pc \in {"urls", "batches", "cursor", "done"} =>
       /\ sync.pc = "idle"
       /\ sync.ran
       /\ \A f \in DOMAIN feeds :
             feeds[f].refreshRateSeconds = EntitledRate(sync.prev, feeds[f].user)
       /\ \A i \in 1..Len(disp.handled) :
             /\ disp.handled[i].doc.refreshRateSeconds = disp.rate
             /\ disp.rate = EntitledRate(sync.prev, disp.handled[i].doc.user)

\* C19 witness: a pass for rate 300 has passed to feedHandler a feed of
\* account U1, whose feeds all had the default rate before the pass.
C19_Witness ==
    /\ disp.pc = "cursor"
    /\ disp.rate = 300
    /\ \E i \in 1..Len(disp.handled) :
          /\ disp.handled[i].doc.user = "U1"
          /\ disp.handled[i].doc.refreshRateSeconds = 300

\* C20: every step changes of a feed at most its refreshRateSeconds; and a
\* step of syncRefreshRates neither changes nor matches a feed whose rate is
\* the rate the benefits read by that run entitle its owner to.
C20_SyncTouchesOnlyStaleRates ==
    [][/\ DOMAIN feeds' = DOMAIN feeds
       /\ \A f \in DOMAIN feeds :
             /\ feeds'[f] = [feeds[f] EXCEPT !.refreshRateSeconds = feeds'[f].refreshRateSeconds]
             /\ (sync.pc \in {"rates", "failed"}
                   /\ feeds[f].refreshRateSeconds = EntitledRate(sync.benefits, feeds[f].user))
                => /\ feeds'[f] = feeds[f]
                   /\ f \notin sync'.matched \ sync.matched
             /\ sync.pc \notin {"rates", "failed"} => feeds'[f] = feeds[f]]_vars

\* C20 witness: a synchronization has finished that changed the rate of some
\* feed and matched neither a disabled feed with a disabled channel and an
\* enabled webhook nor every feed of the store.
C20_Witness ==
    /\ sync.pc = "done"
    /\ sync.matched # {}
    /\ \E f \in DOMAIN feeds \ sync.matched :
          /\ feeds[f].disabledCode = Manual
          /\ Len(feeds[f].discordChannels) = 1
          /\ feeds[f].discordChannels[1].disabledCode = Manual
          /\ Len(feeds[f].discordWebhooks) = 1
          /\ feeds[f].refreshRateSeconds = EntitledRate(sync.benefits, feeds[f].user)

\* C12 as stated: every feed passed to feedHandler has its URL in a batch of
\* the pass, whatever ran between the URL query and the cursor iteration.
C12_HandledFeedsWereBatched ==
    \A i \in 1..Len(disp.handled) : disp.handled[i].doc.url \in BatchUrls(disp)

\* The ids of a connection array, in order.
IdsOf(list) == [i \in 1..Len(list) |-> list[i].id]

\* C21 as stated: every step that is not an edit of the admin layer keeps the
\* set of feeds and, for every feed, the length and the order of ids of both
\* connection arrays.
C21_EngineKeepsFeedsAndDestinations ==
    [][used'.edits = used.edits =>
          /\ DOMAIN feeds' = DOMAIN feeds
          /\ \A f \in DOMAIN feeds : \A k \in 1..2 :
                IdsOf(feeds'[f][Keys[k]]) = IdsOf(feeds[f][Keys[k]])]_vars

\* C22 as stated: when the feed read by a destination-rejection handler for
\* feed F and destination id D has more than one connection with id D, every
\* update of the handler changes at most one connection, one that has id D
\* and no disabledCode, to the mapped code, through an update of its own on
\* that connection's path, and changes no connection with another id; and
\* when the handler is done every connection of F with id D is disabled.
C22_EveryDuplicateDisabled ==
    [][\A h \in Handlers :
          (/\ ConnWriteStepOf(h)
           /\ Cardinality({i \in 1..Len(hs[h].entries) :
                              hs[h].entries[i].id = hs[h].mediumId}) >= 2) =>
          LET F == hs[h].feedId
              D == hs[h].mediumId
              Changed == {p \in (1..2) \X (1..MaxDests + 1) :
                             /\ p[2] <= Len(feeds[F][Keys[p[1]]])
                             /\ feeds'[F][Keys[p[1]]][p[2]] # feeds[F][Keys[p[1]]][p[2]]}
          IN  /\ Cardinality(Changed) <= 1
              /\ \A p \in Changed :
                    /\ feeds[F][Keys[p[1]]][p[2]].id = D
                    /\ feeds[F][Keys[p[1]]][p[2]].disabledCode = Absent
                    /\ feeds'[F][Keys[p[1]]][p[2]] =
                          [feeds[F][Keys[p[1]]][p[2]] EXCEPT !.disabledCode = hs[h].code]
                    /\ <<F, Keys[p[1]], p[2] - 1>> \in hs'[h].modified \ hs[h].modified
              /\ hs'[h].pc = "done" =>
                    \A p \in PositionsWithId(feeds', F, D) :
                       IF <<F, Keys[p[1]], p[2] - 1>> \in hs'[h].modified
                       THEN feeds'[F][Keys[p[1]]][p[2]].disabledCode = hs[h].code
                       ELSE feeds'[F][Keys[p[1]]][p[2]].disabledCode # Absent]_vars

====
